---- MODULE Spec2Model ----
(***************************************************************************)
(* Model of the decision layer of the Tarkov weapon optimizer UI           *)
(* (src/app.py): the offer resolver get_best_offer_display, the on-screen  *)
(* cost composition display_optimization_results, the export               *)
(* generate_build_export, the fuzzy item resolver resolve_item_id, the     *)
(* task tab's required-item resolution and the cascading sidebar filters.  *)
(*                                                                         *)
(* Python values are modelled as follows.  A dict with optional keys is a  *)
(* record whose absent keys hold the value the code's .get() default       *)
(* gives.  None is the number None (-1) where the field is numeric and the *)
(* string NoneId where it is an identifier.  A formatted label is the      *)
(* record of its parts: f"{text} LL{level}" is [text, sep, level].         *)
(***************************************************************************)
EXTENDS Integers, Sequences, FiniteSets, TLC

VARIABLES
    \* ---- offer resolver call (get_best_offer_display) ----
    stats,            \* the item's stats dict passed to the resolver
    trader_levels,    \* vendor -> loyalty level; the empty map is None or {}
    flea_available,   \* flea flag
    player_level,     \* character level, or None
    offer_out,        \* what the call computed and returned
    offer_pc,         \* "call" before the call, "done" after it
    \* ---- composition session (main, display, export) ----
    item_lookup,      \* id -> [data, stats] for mods; the catalog
    weapon_stats,     \* item_lookup[weapon_id]["stats"]
    presets,          \* item_lookup[weapon_id]["presets"]: purchasable presets
    all_presets,      \* item_lookup[weapon_id]["all_presets"]: full catalog
    constraints,      \* the constraints dict handed to display and export
    result,           \* the optimizer's result dict
    shown,            \* what display_optimization_results put on screen
    exported,         \* what generate_build_export returned
    status_label,     \* the label of the st.status box around the optimizer
    pc,               \* position of the session in the optimize or task tab
    \* ---- fuzzy item resolver call (resolve_item_id) ----
    lookup_items,     \* item_lookup.items() in iteration order: [id, name]
    name_query,       \* the name asked for
    resolved_id,      \* what the call returned
    resolve_pc,       \* "call" before the call, "done" after it
    \* ---- task tab button handler ----
    task,             \* the task and the handler's locals
    \* ---- sidebar filters of main ----
    guns,             \* the weapon list: [category, caliber] per gun
    selected_types,   \* st.session_state.selected_types
    selected_calibers, \* st.session_state.selected_calibers
    filter_last,      \* the last filter transition and the state it started from
    \* ---- player context of the sidebar and its way to the resolver ----
    player            \* the sidebar's inputs and what a tab passed on

offer_vars == <<stats, trader_levels, flea_available, player_level, offer_out, offer_pc>>
compose_vars == <<item_lookup, weapon_stats, presets, all_presets, constraints,
                  result, shown, exported, status_label, pc>>
lookup_vars == <<lookup_items, name_query, resolved_id, resolve_pc>>
filter_vars == <<guns, selected_types, selected_calibers, filter_last>>
vars == <<offer_vars, compose_vars, lookup_vars, task, filter_vars, player>>

\* the parts of the program a behaviour does not exercise
LookupIdle ==
    /\ lookup_items = << >>
    /\ name_query = << >>
    /\ resolved_id = "None"
    /\ resolve_pc = "idle"

TaskIdle == task = << >>

PlayerIdle == player = << >>

FilterIdle ==
    /\ guns = << >>
    /\ selected_types = {}
    /\ selected_calibers = {}
    /\ filter_last = << >>

----------------------------------------------------------------------------
(* Python's None *)
None == -1
NoneId == "None"

(* Bounds of the model *)
MaxOffers == 2
MaxSelected == 2

(* Program constants *)
DefaultFleaLevel == 15
DefaultTraderLevel == 4
DummyPriceLimit == 100000000

----------------------------------------------------------------------------
(* Value domains the inputs are drawn from *)

OfferPrices == {100, 200}
RequiredLevels == {None, 2, 4}
PlayerTraderLevels == {2, 3}
PlayerLevels == {None, 10, 20}
MinLevelFleaValues == {0, 20}

\* vendor_normalized -> vendor_name; "Mechanic" is a normalized name that is
\* not yet lower case
VendorNames == [prapor |-> "Prapor", Mechanic |-> "Mechanic"]
TraderKeys == {"prapor", "mechanic"}

FleaOffers ==
    { [source |-> "fleaMarket", vendor_normalized |-> "flea-market",
       vendor_name |-> "Flea Market", trader_level |-> None, price |-> p]
      : p \in OfferPrices }

TraderOffers ==
    { [source |-> "trader", vendor_normalized |-> v,
       vendor_name |-> VendorNames[v], trader_level |-> l, price |-> p]
      : v \in DOMAIN VendorNames, l \in RequiredLevels, p \in OfferPrices }

Offers == FleaOffers \cup TraderOffers

RECURSIVE SeqsUpTo(_, _)
SeqsUpTo(S, n) ==
    IF n = 0 THEN {<<>>}
    ELSE LET shorter == SeqsUpTo(S, n - 1)
         IN  shorter \cup { Append(s, x) : s \in {t \in shorter : Len(t) = n - 1}, x \in S }

\* the catalog fields the resolver reads when an item has no offers: the keys
\* present, or both absent (the .get() defaults 'market' and 0)
CatalogPricing ==
    { [price_source |-> "market", price |-> 0],
      [price_source |-> "not_available", price |-> 150] }

StatsDomain ==
    { [offers |-> os, min_level_flea |-> m, price_source |-> c.price_source,
       price |-> c.price]
      : os \in SeqsUpTo(Offers, MaxOffers), m \in MinLevelFleaValues,
        c \in CatalogPricing }

TraderLevelMaps ==
    UNION { [D -> PlayerTraderLevels] : D \in SUBSET TraderKeys }

----------------------------------------------------------------------------
(* get_best_offer_display, src/app.py:182-229 *)

\* str.lower() on the vendor names of the model
Lower(s) ==
    CASE s = "Mechanic" -> "mechanic"
      [] s = "Prapor" -> "prapor"
      [] OTHER -> s

\* stats.get('min_level_flea', 0) or 15
MinLevelFlea(st) ==
    IF st.min_level_flea = 0 THEN DefaultFleaLevel ELSE st.min_level_flea

\* trader_levels.get(vendor, 4)
PlayerTraderLevel(tl, vendor) ==
    IF vendor \in DOMAIN tl THEN tl[vendor] ELSE DefaultTraderLevel

\* the body of the filter loop: TRUE iff the offer is appended
KeepOfferAtLeast(offer, st, tl, flea, pl) ==
    IF offer.source = "fleaMarket"
    THEN /\ flea
         /\ ~(pl # None /\ MinLevelFlea(st) >= pl)
    ELSE LET vendor == Lower(offer.vendor_normalized)
             required_level == offer.trader_level
         IN  IF tl # << >>
             THEN ~(required_level # None
                    /\ required_level >= PlayerTraderLevel(tl, vendor))
             ELSE TRUE

KeepOffer(offer, st, tl, flea, pl) ==
    IF offer.source = "fleaMarket"
    THEN /\ flea
         /\ ~(pl # None /\ MinLevelFlea(st) > pl)
    ELSE LET vendor == Lower(offer.vendor_normalized)
             required_level == offer.trader_level
         IN  IF tl # << >>
             THEN ~(required_level # None
                    /\ required_level > PlayerTraderLevel(tl, vendor))
             ELSE TRUE

AvailableOffers(st, tl, flea, pl) ==
    SelectSeq(st.offers, LAMBDA offer : KeepOffer(offer, st, tl, flea, pl))

\* min(seq, key=price): the first element whose key is smallest
RECURSIVE MinScan(_, _, _)
MinScan(seq, i, best) ==
    IF i > Len(seq) THEN best
    ELSE MinScan(seq, i + 1, IF seq[i].price < best.price THEN seq[i] ELSE best)

RECURSIVE MinScanLast(_, _, _)
MinScanLast(seq, i, best) ==
    IF i > Len(seq) THEN best
    ELSE MinScanLast(seq, i + 1, IF seq[i].price <= best.price THEN seq[i] ELSE best)

MinByPriceLast(seq) == MinScanLast(seq, 2, seq[1])

MinByPrice(seq) == MinScan(seq, 2, seq[1])

Label(text, sep, level) == [text |-> text, sep |-> sep, level |-> level]

UnavailableLabel == Label("Unavailable", "", None)

OfferLabelPlain(best_offer, st) ==
    IF best_offer.source = "fleaMarket"
    THEN Label("Flea", " Lv", MinLevelFlea(st))
    ELSE Label(best_offer.vendor_name, "", None)

\* the label of the chosen offer, lines 222-229
OfferLabel(best_offer, st) ==
    IF best_offer.source = "fleaMarket"
    THEN Label("Flea", " Lv", MinLevelFlea(st))
    ELSE IF best_offer.trader_level # None /\ best_offer.trader_level # 0
         THEN Label(best_offer.vendor_name, " LL", best_offer.trader_level)
         ELSE Label(best_offer.vendor_name, "", None)

\* the function with the "Unavailable" result dropped: an item none of whose
\* offers is available falls back to the catalog pricing
get_best_offer_displayCatalogFallback(st, tl, flea, pl) ==
    LET available_offers == AvailableOffers(st, tl, flea, pl)
    IN  IF available_offers = << >>
        THEN [label |-> Label(st.price_source, "", None), price |-> st.price,
              available |-> << >>, best |-> << >>]
        ELSE LET best_offer == MinByPrice(available_offers)
             IN  [label |-> OfferLabel(best_offer, st), price |-> best_offer.price,
                  available |-> available_offers, best |-> <<best_offer>>]

\* the function without the early return for an empty offer list
get_best_offer_displayFiltered(st, tl, flea, pl) ==
    LET available_offers == AvailableOffers(st, tl, flea, pl)
    IN  IF available_offers = << >>
        THEN [label |-> UnavailableLabel, price |-> 0,
              available |-> << >>, best |-> << >>]
        ELSE LET best_offer == MinByPrice(available_offers)
             IN  [label |-> OfferLabel(best_offer, st), price |-> best_offer.price,
                  available |-> available_offers, best |-> <<best_offer>>]

\* the whole function; `available` and `best` are its locals
get_best_offer_display(st, tl, flea, pl) ==
    IF st.offers = << >>
    THEN [label |-> Label(st.price_source, "", None), price |-> st.price,
          available |-> << >>, best |-> << >>]
    ELSE LET available_offers == AvailableOffers(st, tl, flea, pl)
         IN  IF available_offers = << >>
             THEN [label |-> UnavailableLabel, price |-> 0,
                   available |-> << >>, best |-> << >>]
             ELSE LET best_offer == MinByPrice(available_offers)
                  IN  [label |-> OfferLabel(best_offer, st), price |-> best_offer.price,
                       available |-> available_offers, best |-> <<best_offer>>]

----------------------------------------------------------------------------
(* The catalog, the weapon and the optimizer results of a session *)

ItemIds == {"m1", "m2", "m3"}
PresetIds == {"p1", "pX"}

TraderLL4 ==
    [source |-> "trader", vendor_normalized |-> "prapor", vendor_name |-> "Prapor",
     trader_level |-> 4, price |-> 100]
Flea200 ==
    [source |-> "fleaMarket", vendor_normalized |-> "flea-market",
     vendor_name |-> "Flea Market", trader_level |-> None, price |-> 200]

\* stats["price"] is the catalog price: the cheapest offer of all, whoever may
\* buy it, or the catalog's own price for an item without offers
\* ergonomics are held in hundredths: +6.25, -10.50 and 0 (the key missing)
GatedStats ==
    [offers |-> <<TraderLL4, Flea200>>, min_level_flea |-> 0,
     price_source |-> "Prapor LL4", price |-> 100, ergonomics |-> 625]
FleaStats ==
    [offers |-> <<Flea200>>, min_level_flea |-> 0,
     price_source |-> "fleaMarket", price |-> 200, ergonomics |-> -1050]
NoOfferStats ==
    [offers |-> << >>, min_level_flea |-> 0, price_source |-> "market", price |-> 150,
     ergonomics |-> 0]

Item(name, st) == [data |-> [name |-> name], stats |-> st]

\* item_lookup restricted to the mods; "m3" may be missing from the catalog
ItemLookups ==
    { f \in UNION { [D -> {Item("mod", st) : st \in {GatedStats, FleaStats, NoOfferStats}}]
                    : D \in {{"m1", "m2"}, ItemIds} } :
        /\ f["m1"].stats \in {GatedStats, NoOfferStats}
        /\ f["m2"].stats \in {GatedStats, FleaStats}
        /\ "m3" \in DOMAIN f => f["m3"].stats = NoOfferStats }

\* naked_ergonomics in hundredths: 95.00, 5.00 and 40.00
WeaponStatsDomain ==
    { [price |-> 50000, price_source |-> "Prapor LL1", naked_ergonomics |-> 9500],
      [price |-> DummyPriceLimit, price_source |-> "not_available",
       naked_ergonomics |-> 500],
      [price |-> DummyPriceLimit + 1, price_source |-> "not_available",
       naked_ergonomics |-> 4000] }

Preset(id, name, price, items) ==
    [id |-> id, name |-> name, price |-> price, price_source |-> "market", items |-> items]

P1 == Preset("p1", "P1", 500, {"m1"})
P1Catalog == Preset("p1", "P1 catalog", 900, {"m1", "m2"})
P2 == Preset("p2", "P2", 700, {"m2"})

PurchasablePresetLists == { << >>, <<P2>>, <<P2, P1>> }
AllPresetLists == { << >>, <<P1Catalog, P2>> }

\* the constraints dict: the optimize tab fills in the player context, the
\* task tab passes the task's constraints, which carry none of its keys
TaskConstraints ==
    [trader_levels |-> << >>, flea_available |-> TRUE, player_level |-> None]
ConstraintsDomain ==
    { TaskConstraints,
      [trader_levels |-> [prapor |-> 2], flea_available |-> TRUE, player_level |-> 20],
      [trader_levels |-> [prapor |-> 2], flea_available |-> FALSE, player_level |-> 10] }

NoRepeat(seq) == \A i, j \in 1..Len(seq) : i # j => seq[i] # seq[j]

SelectedItemLists == { sel \in SeqsUpTo(ItemIds, MaxSelected) : NoRepeat(sel) }

\* fallback_base is None, or a dict whose "type" is "preset" or "naked"
FallbackTypes == {NoneId, "preset", "naked"}

InfeasibleResult ==
    [status |-> "infeasible", selected_items |-> << >>, selected_preset |-> NoneId,
     fallback_base |-> NoneId]

Results ==
    { [status |-> st, selected_items |-> sel, selected_preset |-> p, fallback_base |-> fb]
      : st \in {"optimal", "feasible"}, sel \in SelectedItemLists,
        p \in {NoneId} \cup PresetIds, fb \in FallbackTypes }
    \cup {InfeasibleResult}

----------------------------------------------------------------------------
(* Helpers shared by display_optimization_results and generate_build_export *)

Range(seq) == { seq[i] : i \in 1..Len(seq) }

RECURSIVE SumSeq(_)
SumSeq(seq) == IF seq = << >> THEN 0 ELSE Head(seq) + SumSeq(Tail(seq))

RECURSIVE InLookupUntilMiss(_, _)
InLookupUntilMiss(item_ids, lookup) ==
    IF item_ids = << >> \/ Head(item_ids) \notin DOMAIN lookup THEN << >>
    ELSE <<Head(item_ids)>> \o InLookupUntilMiss(Tail(item_ids), lookup)

\* the ids of a list that the lookup holds: "if item_id in item_lookup"
InLookup(item_ids, lookup) == SelectSeq(item_ids, LAMBDA id : id \in DOMAIN lookup)

\* [item_lookup[id]["stats"].get("price", 0) for id in item_ids]
CatalogPrices(item_ids, lookup) ==
    [i \in 1..Len(item_ids) |-> lookup[item_ids[i]].stats.price]

\* calculate_total_stats(...)["total_price"]: the catalog prices of the
\* selected items the lookup holds
TotalPrice(selected_items, lookup) ==
    SumSeq(CatalogPrices(InLookup(selected_items, lookup), lookup))

\* calculate_total_stats(...)["ergonomics"], in hundredths: the naked
\* ergonomics plus the ergonomics of the selected items the lookup holds
TotalErgonomics(ws, selected_items, lookup) ==
    LET found == InLookup(selected_items, lookup)
    IN  ws.naked_ergonomics
            + SumSeq([i \in 1..Len(found) |-> lookup[found[i]].stats.ergonomics])

\* a value in hundredths to one decimal, in tenths, as round(x, 1) and the
\* format ":.1f" do it: to the nearest tenth, a tie to the even one (the
\* quarters used here are exact binary fractions, so a tie is a tie)
RoundToTenths(x) ==
    LET q == x \div 10
        r == x % 10
    IN  IF r < 5 THEN q
        ELSE IF r > 5 THEN q + 1
        ELSE IF q % 2 = 0 THEN q ELSE q + 1

HundredPercent == 10000

\* lines 307-317: the ergonomics metric, value and delta as rendered
ErgonomicsMetric(res, lookup, ws) ==
    LET raw_ergo == TotalErgonomics(ws, res.selected_items, lookup)
        lower == IF HundredPercent < raw_ergo THEN HundredPercent ELSE raw_ergo
        capped_ergo == IF 0 > lower THEN 0 ELSE lower
        ergo_delta == raw_ergo - ws.naked_ergonomics
    IN  [value |-> RoundToTenths(capped_ergo), delta |-> RoundToTenths(ergo_delta)]

ExportErgonomicsCapped(res, lookup, ws) ==
    ErgonomicsMetric(res, lookup, ws).value

\* line 584: final_stats.ergonomics of the export record
ExportErgonomics(res, lookup, ws) ==
    RoundToTenths(TotalErgonomics(ws, res.selected_items, lookup))

\* line 603: the Ergonomics row of the Markdown report
MarkdownErgonomics(res, lookup, ws) ==
    LET raw == TotalErgonomics(ws, res.selected_items, lookup)
        upper == IF 0 > raw THEN 0 ELSE raw
    IN  RoundToTenths(IF HundredPercent < upper THEN HundredPercent ELSE upper)

\* weapon_stats.get("price", 0), zeroed when it is the dummy price
WeaponBasePriceAtLeast(ws) ==
    IF ws.price >= DummyPriceLimit THEN 0 ELSE ws.price

WeaponBasePrice(ws) ==
    IF ws.price > DummyPriceLimit THEN 0 ELSE ws.price

\* next((p for p in plist if p.get("id") == preset_id), None): the first
\* match as a one-element sequence, << >> for None
RECURSIVE FindPreset(_, _)
FindPreset(plist, preset_id) ==
    IF plist = << >> THEN << >>
    ELSE IF Head(plist).id = preset_id THEN <<Head(plist)>>
         ELSE FindPreset(Tail(plist), preset_id)

\* the preset record looked up for a selected preset id
ResolvePresetCatalogFirst(purchasable, catalog, preset_id) ==
    LET preset_info == FindPreset(catalog, preset_id)
    IN  IF preset_info = << >> THEN FindPreset(purchasable, preset_id) ELSE preset_info

ResolvePreset(purchasable, catalog, preset_id) ==
    LET preset_info == FindPreset(purchasable, preset_id)
    IN  IF preset_info = << >> THEN FindPreset(catalog, preset_id) ELSE preset_info

\* fallback_base and fallback_base.get("type") == "preset"
IsPresetFallback(res) == res.fallback_base = "preset"

\* fallback_base and fallback_base.get("type") == "naked"
IsNakedFallback(res) == res.fallback_base = "naked"

\* 0 if this is a fallback preset, else preset_info.get("price", 0)
PresetPriceListed(res, preset_info) == preset_info.price

PresetPrice(res, preset_info) ==
    IF IsPresetFallback(res) THEN 0 ELSE preset_info.price

\* total_cost = preset_price + individual_cost; weapon_base_price is in scope
\* and stays out of the sum
PresetTotalWithBase(preset_price, individual_cost, weapon_base_price) ==
    weapon_base_price + preset_price + individual_cost

PresetTotal(preset_price, individual_cost, weapon_base_price) ==
    preset_price + individual_cost

\* [m for m in selected_items if m not in preset_items]
AdditionalItemsAll(selected_items, preset_items) == selected_items

AdditionalItems(selected_items, preset_items) ==
    SelectSeq(selected_items, LAMBDA id : id \notin preset_items)

\* sum of stats.get("price", 0) over the selected items that are not in the
\* preset and are in the lookup
IndividualCost(selected_items, preset_items, lookup) ==
    SumSeq(CatalogPrices(
        SelectSeq(selected_items,
                  LAMBDA id : id \notin preset_items /\ id \in DOMAIN lookup),
        lookup))

\* one row of display_mods_table with show_price=True: the price and source
\* are the offer resolver's under the constraints
ModsRow(id, lookup, cons) ==
    LET offer == get_best_offer_display(lookup[id].stats, cons.trader_levels,
                                        cons.flea_available, cons.player_level)
    IN  [id |-> id, name |-> lookup[id].data.name,
         price |-> offer.price, source |-> offer.label]

\* display_mods_table: one row per id found in the lookup
ModsTable(item_ids, lookup, cons) ==
    LET found == InLookup(item_ids, lookup)
    IN  [i \in 1..Len(found) |-> ModsRow(found[i], lookup, cons)]

----------------------------------------------------------------------------
(* display_optimization_results, src/app.py:284-513 *)

NoPriceLine == [kind |-> "", price |-> None]

\* nothing on screen yet
NothingShown ==
    [outcome |-> "none", ergonomics |-> << >>, total_cost |-> None, cost_label |-> "", cost_base |-> None,
     cost_mods |-> None, delta_val |-> None, section |-> "", preset_name |-> "",
     bundle_price |-> None, bundle_source |-> "", includes |-> None,
     additional_items |-> << >>, additional_rows |-> << >>, preset_rows |-> {},
     base_price_line |-> NoPriceLine]

\* lines 349-391: the total cost metric.  `bound` is FALSE when the preset
\* branch leaves cost_composition and delta_val unassigned, and the metric's
\* f-string then raises UnboundLocalError
CostMetric(res, lookup, ws, purchasable, catalog) ==
    LET total_price == TotalPrice(res.selected_items, lookup)
        weapon_base_price == WeaponBasePrice(ws)
    IN  IF res.selected_preset # NoneId
        THEN LET preset_info_temp == ResolvePreset(purchasable, catalog, res.selected_preset)
             IN  IF preset_info_temp # << >>
                 THEN LET individual_cost ==
                              IndividualCost(res.selected_items, preset_info_temp[1].items, lookup)
                          preset_price == PresetPrice(res, preset_info_temp[1])
                      IN  [bound |-> TRUE,
                           total_cost |-> PresetTotal(preset_price, individual_cost,
                                                      weapon_base_price),
                           cost_label |-> "preset", cost_base |-> preset_price,
                           cost_mods |-> individual_cost, delta_val |-> individual_cost]
                 ELSE [bound |-> FALSE, total_cost |-> total_price, cost_label |-> "",
                       cost_base |-> None, cost_mods |-> None, delta_val |-> None]
        ELSE [bound |-> TRUE, total_cost |-> weapon_base_price + total_price,
              cost_label |-> "base_weapon", cost_base |-> weapon_base_price,
              cost_mods |-> total_price, delta_val |-> total_price]

\* lines 440-450 and 465-475: the price line under the base weapon
BasePriceLine(res, ws) ==
    IF IsNakedFallback(res) THEN [kind |-> "fallback_free", price |-> 0]
    ELSE IF ws.price_source = "not_available" THEN [kind |-> "not_available", price |-> None]
    ELSE [kind |-> ws.price_source, price |-> ws.price]

\* lines 393-481: the selected build section
BuildSection(res, lookup, ws, purchasable, catalog, cons) ==
    LET preset_info ==
            IF res.selected_preset # NoneId
            THEN ResolvePreset(purchasable, catalog, res.selected_preset)
            ELSE << >>
        preset_item_ids == IF preset_info # << >> THEN preset_info[1].items ELSE {}
    IN  IF res.selected_preset # NoneId /\ preset_info # << >>
        THEN LET is_fallback == IsPresetFallback(res)
                 additional_items == AdditionalItems(res.selected_items, preset_item_ids)
             IN  [section |-> "preset", preset_name |-> preset_info[1].name,
                  bundle_price |-> PresetPrice(res, preset_info[1]),
                  bundle_source |-> IF is_fallback THEN "fallback (free)"
                                    ELSE preset_info[1].price_source,
                  includes |-> Cardinality(preset_item_ids),
                  additional_items |-> additional_items,
                  additional_rows |-> ModsTable(additional_items, lookup, cons),
                  preset_rows |-> preset_item_ids \cap DOMAIN lookup,
                  base_price_line |-> NoPriceLine]
        ELSE IF res.selected_items # << >>
        THEN [section |-> "naked_gun_mods", preset_name |-> "", bundle_price |-> None,
              bundle_source |-> "", includes |-> None,
              additional_items |-> res.selected_items,
              additional_rows |-> ModsTable(res.selected_items, lookup, cons),
              preset_rows |-> {}, base_price_line |-> BasePriceLine(res, ws)]
        ELSE [section |-> "naked_gun", preset_name |-> "", bundle_price |-> None,
              bundle_source |-> "", includes |-> None, additional_items |-> << >>,
              additional_rows |-> << >>, preset_rows |-> {},
              base_price_line |-> BasePriceLine(res, ws)]

\* the whole function: what is on screen when it returns or raises
display_optimization_results(res, lookup, ws, purchasable, catalog, cons) ==
    IF res.status = "infeasible"
    THEN [NothingShown EXCEPT !.outcome = "infeasible"]
    ELSE LET metric == CostMetric(res, lookup, ws, purchasable, catalog)
         IN  IF ~metric.bound
             THEN [NothingShown EXCEPT !.outcome = "fault",
                                       !.ergonomics = <<ErgonomicsMetric(res, lookup, ws)>>]
             ELSE LET sec == BuildSection(res, lookup, ws, purchasable, catalog, cons)
                  IN  [outcome |-> "displayed",
                       ergonomics |-> <<ErgonomicsMetric(res, lookup, ws)>>,
                       total_cost |-> metric.total_cost,
                       cost_label |-> metric.cost_label, cost_base |-> metric.cost_base,
                       cost_mods |-> metric.cost_mods, delta_val |-> metric.delta_val,
                       section |-> sec.section, preset_name |-> sec.preset_name,
                       bundle_price |-> sec.bundle_price,
                       bundle_source |-> sec.bundle_source, includes |-> sec.includes,
                       additional_items |-> sec.additional_items,
                       additional_rows |-> sec.additional_rows,
                       preset_rows |-> sec.preset_rows,
                       base_price_line |-> sec.base_price_line]

----------------------------------------------------------------------------
(* generate_build_export, src/app.py:516-668 *)

NothingExported ==
    [made |-> FALSE, weapon_base_price |-> None, preset |-> << >>, mods |-> << >>,
     ergonomics |-> << >>, md_ergonomics |-> << >>, total_cost |-> None, optimization_status |-> "", md_total_cost |-> None,
     md_preset |-> << >>, md_additional |-> << >>, md_rows |-> << >>,
     constraints |-> << >>]

\* lines 523-551: total_cost
ExportTotalCost(res, lookup, ws, preset_info) ==
    IF res.selected_preset # NoneId
    THEN IF preset_info # << >>
         THEN PresetTotal(PresetPrice(res, preset_info[1]),
                          IndividualCost(res.selected_items, preset_info[1].items, lookup),
                          WeaponBasePrice(ws))
         ELSE TotalPrice(res.selected_items, lookup)
    ELSE WeaponBasePrice(ws) + TotalPrice(res.selected_items, lookup)

ExportPresetListedPrice(res, preset_info) ==
    IF res.selected_preset = NoneId THEN << >>
    ELSE << [id |-> IF preset_info # << >> THEN preset_info[1].id ELSE NoneId,
             name |-> IF preset_info # << >> THEN preset_info[1].name ELSE NoneId,
             price |-> IF preset_info # << >> THEN preset_info[1].price ELSE None,
             is_fallback |-> IsPresetFallback(res)] >>

\* lines 566-571: json_data["preset"], << >> for null
ExportPreset(res, preset_info) ==
    IF res.selected_preset = NoneId THEN << >>
    ELSE << [id |-> IF preset_info # << >> THEN preset_info[1].id ELSE NoneId,
             name |-> IF preset_info # << >> THEN preset_info[1].name ELSE NoneId,
             price |-> IF preset_info # << >> THEN PresetPrice(res, preset_info[1])
                       ELSE None,
             is_fallback |-> IsPresetFallback(res)] >>

ExportModsItemsOutsidePreset(res, preset_info) ==
    IF preset_info # << >>
    THEN SelectSeq(res.selected_items, LAMBDA id : id \notin preset_info[1].items)
    ELSE res.selected_items

\* line 580: the mods array runs over all of selected_items
ExportModsItems(res, preset_info) == res.selected_items

\* lines 572-582: json_data["mods"]
ExportMods(res, lookup) ==
    LET found == InLookup(res.selected_items, lookup)
    IN  [i \in 1..Len(found) |->
            [id |-> found[i], name |-> lookup[found[i]].data.name,
             price |-> lookup[found[i]].stats.price]]

\* lines 611-618: the Base Preset block of the Markdown report, << >> if absent
MarkdownPreset(res, preset_info) ==
    IF res.selected_preset # NoneId /\ preset_info # << >>
    THEN << [name |-> preset_info[1].name, price |-> PresetPrice(res, preset_info[1]),
             note |-> IF IsPresetFallback(res) THEN " (fallback - free)" ELSE ""] >>
    ELSE << >>

\* lines 620-624: additional_mods
MarkdownAdditional(res, preset_info) ==
    IF preset_info # << >>
    THEN AdditionalItems(res.selected_items, preset_info[1].items)
    ELSE res.selected_items

\* the whole function; exported_at is left out
generate_build_export(res, lookup, ws, purchasable, catalog, cons) ==
    LET preset_info ==
            IF res.selected_preset # NoneId
            THEN ResolvePreset(purchasable, catalog, res.selected_preset)
            ELSE << >>
        total_cost == ExportTotalCost(res, lookup, ws, preset_info)
        additional_mods == MarkdownAdditional(res, preset_info)
    IN  [made |-> TRUE,
         weapon_base_price |-> WeaponBasePrice(ws),
         preset |-> ExportPreset(res, preset_info),
         mods |-> ExportMods([res EXCEPT !.selected_items =
                                               ExportModsItems(res, preset_info)],
                             lookup),
         ergonomics |-> <<ExportErgonomics(res, lookup, ws)>>,
         md_ergonomics |-> <<MarkdownErgonomics(res, lookup, ws)>>,
         total_cost |-> total_cost,
         optimization_status |-> res.status,
         md_total_cost |-> total_cost,
         md_preset |-> MarkdownPreset(res, preset_info),
         md_additional |-> additional_mods,
         md_rows |-> ExportMods([res EXCEPT !.selected_items = additional_mods], lookup),
         constraints |-> cons]

----------------------------------------------------------------------------
(* The optimize tab of main, src/app.py:1409-1489: the button runs the       *)
(* optimizer, the result is displayed, and a result that is not infeasible  *)
(* is exported.                                                             *)

NoResult == [InfeasibleResult EXCEPT !.status = "none"]

OfferIdle ==
    /\ stats = << >>
    /\ trader_levels = << >>
    /\ flea_available = TRUE
    /\ player_level = None
    /\ offer_out = << >>
    /\ offer_pc = "idle"

InitCompose ==
    /\ item_lookup \in ItemLookups
    /\ weapon_stats \in WeaponStatsDomain
    /\ presets \in PurchasablePresetLists
    /\ all_presets \in AllPresetLists
    /\ constraints \in ConstraintsDomain
    /\ result = NoResult
    /\ shown = NothingShown
    /\ exported = NothingExported
    /\ status_label = "optimizing"
    /\ pc = "ready"
    /\ OfferIdle
    /\ LookupIdle
    /\ TaskIdle
    /\ FilterIdle
    /\ PlayerIdle

session_vars == <<item_lookup, weapon_stats, presets, all_presets, constraints>>

\* the task tab hands display_optimization_results the task's own constraints
InTaskTab == constraints = TaskConstraints

\* lines 1449-1453 and 1627-1630: the status box after the optimizer returned
StatusLabel(status) == IF status = "infeasible" THEN "no_solution" ELSE "complete"

ExportOfferedAlways(res) == TRUE

\* line 1482: the export is generated only for a result that is not infeasible
ExportOffered(res) == res.status # "infeasible"

\* lines 1627-1643: the task tab calls the display only in the else branch
TaskShown(res, lookup, ws, purchasable, catalog, cons) ==
    IF res.status = "infeasible"
    THEN NothingShown
    ELSE display_optimization_results(res, lookup, ws, purchasable, catalog, cons)

\* optimize_weapon returns: any result the external optimizer can produce.
\* Each press of the button is a fresh run of the script, so every run starts
\* from "ready" with nothing shown and nothing exported.
Optimize ==
    /\ pc = "ready"
    /\ result' \in Results
    /\ shown' = NothingShown
    /\ exported' = NothingExported
    /\ status_label' = StatusLabel(result'.status)
    /\ pc' = "optimized"
    /\ UNCHANGED <<session_vars, offer_vars, lookup_vars, task, filter_vars, player>>

\* line 1478 of the optimize tab: the returned flag is ignored and the script
\* goes on to the export buttons; an exception raised inside ends the run
DisplayResults ==
    /\ pc = "optimized"
    /\ ~InTaskTab
    /\ shown' = display_optimization_results(result, item_lookup, weapon_stats,
                                              presets, all_presets, constraints)
    /\ pc' = IF shown'.outcome = "fault" THEN "done" ELSE "displayed"
    /\ UNCHANGED <<session_vars, result, exported, status_label, offer_vars, lookup_vars, task, filter_vars, player>>

\* lines 1482-1489
GenerateExport ==
    /\ pc = "displayed"
    /\ ExportOffered(result)
    /\ exported' = generate_build_export(result, item_lookup, weapon_stats,
                                          presets, all_presets, constraints)
    /\ pc' = "done"
    /\ UNCHANGED <<session_vars, result, shown, status_label, offer_vars, lookup_vars, task, filter_vars, player>>

\* lines 1627-1647 of the task tab: an infeasible result only updates the
\* status box; any other result is displayed, and an exception raised by the
\* display is caught and reported in the status box.  Nothing is exported.
TaskDisplayResults ==
    /\ pc = "optimized"
    /\ InTaskTab
    /\ shown' = TaskShown(result, item_lookup, weapon_stats, presets, all_presets,
                          constraints)
    /\ status_label' = IF shown'.outcome = "fault" THEN "Error" ELSE status_label
    /\ pc' = "done"
    /\ UNCHANGED <<session_vars, result, exported, offer_vars, lookup_vars, task, filter_vars, player>>

NextCompose == Optimize \/ DisplayResults \/ GenerateExport \/ TaskDisplayResults

SpecCompose == InitCompose /\ [][NextCompose]_vars

----------------------------------------------------------------------------
(* Properties of the cost composition *)

Displayed == shown.outcome = "displayed"
PresetSelected == result.selected_preset # NoneId

\* the ids of the rows of a rendered table, in order
RowIds(rows) == [i \in 1..Len(rows) |-> rows[i].id]
RowPrices(rows) == [i \in 1..Len(rows) |-> rows[i].price]

\* the places of the selected preset id in the two preset lists
PurchasableMatches == { i \in 1..Len(presets) : presets[i].id = result.selected_preset }
CatalogMatches == { i \in 1..Len(all_presets) : all_presets[i].id = result.selected_preset }
Least(S) == CHOOSE i \in S : \A j \in S : i <= j

PresetFound == PurchasableMatches # {} \/ CatalogMatches # {}

\* the purchasable entry if there is one, else the full-catalog entry
ExpectedPreset ==
    IF PurchasableMatches # {} THEN presets[Least(PurchasableMatches)]
    ELSE all_presets[Least(CatalogMatches)]

\* the selected items that are not members of the preset, in selection order
NonMembers ==
    SelectSeq(result.selected_items, LAMBDA id : id \notin ExpectedPreset.items)

\* the price the offer resolver returns for an item under the player's context
ResolverPrice(id) ==
    get_best_offer_display(item_lookup[id].stats, constraints.trader_levels,
                           constraints.flea_available, constraints.player_level).price

\* C4: in a preset build the additional-mods cost that enters the total is
\* the sum of the offer resolver's prices of the selected items outside the
\* preset, so the total agrees with the prices shown in the additional-mods
\* table.
C4_ModsCostIsResolverPrices ==
    (Displayed /\ PresetSelected) =>
        LET charged == InLookup(NonMembers, item_lookup)
            resolver_sum == SumSeq([i \in 1..Len(charged) |-> ResolverPrice(charged[i])])
        IN  /\ shown.cost_mods = resolver_sum
            /\ shown.cost_mods = SumSeq(RowPrices(shown.additional_rows))
            /\ shown.total_cost = shown.cost_base + resolver_sum
            /\ exported.made => exported.total_cost = shown.cost_base + resolver_sum

\* C5: with fallbackBase.type == naked and no preset selected, the weapon
\* base cost in the composed total is exactly 0, on screen and in the export
\* record's weapon.base_price and total_cost, whatever the catalog price.
C5_NakedFallbackBaseCostZero ==
    (Displayed /\ ~PresetSelected /\ IsNakedFallback(result)) =>
        /\ shown.cost_base = 0
        /\ shown.total_cost = shown.cost_mods
        /\ exported.made =>
              /\ exported.weapon_base_price = 0
              /\ exported.total_cost = shown.cost_mods

\* the catalog prices of the selected items the lookup holds, summed
SelectedPriceSum ==
    SumSeq(CatalogPrices(InLookup(result.selected_items, item_lookup), item_lookup))

\* C6 (as claimed): with no preset selected, a weapon base price >= 100,000,000
\* contributes 0 and the total is the sum of the selected items' prices; a
\* base price below 100,000,000 contributes its full value.
C6_SentinelAtLeastLimit ==
    (Displayed /\ ~PresetSelected) =>
        LET base == IF weapon_stats.price >= 100000000 THEN 0 ELSE weapon_stats.price
        IN  /\ shown.cost_base = base
            /\ shown.total_cost = base + SelectedPriceSum
            /\ exported.made =>
                  /\ exported.weapon_base_price = base
                  /\ exported.total_cost = base + SelectedPriceSum

\* C6 (amended): with no preset selected, a weapon base price above
\* 100,000,000 contributes 0 and the total is the sum of the selected items'
\* prices; a base price of 100,000,000 or below contributes its full value.
C6_SentinelAboveLimit ==
    (Displayed /\ ~PresetSelected) =>
        LET base == IF weapon_stats.price > 100000000 THEN 0 ELSE weapon_stats.price
        IN  /\ shown.cost_base = base
            /\ shown.total_cost = base + SelectedPriceSum
            /\ exported.made =>
                  /\ exported.weapon_base_price = base
                  /\ exported.total_cost = base + SelectedPriceSum

C6_Witness ==
    /\ exported.made
    /\ ~PresetSelected
    /\ weapon_stats.price > 100000000
    /\ Len(InLookup(result.selected_items, item_lookup)) = 2
    /\ shown.cost_base = 0
    /\ shown.total_cost = SelectedPriceSum
    /\ exported.total_cost = SelectedPriceSum

\* C7: in a preset build the reported total is the preset cost of the
\* breakdown plus the additional-mods cost of the breakdown, on screen and in
\* the export; the weapon's base price is not part of it.
C7_PresetTotalIsPresetPlusMods ==
    (Displayed /\ PresetSelected) =>
        /\ shown.cost_label = "preset"
        /\ shown.cost_base = shown.bundle_price
        /\ shown.total_cost = shown.bundle_price + shown.cost_mods
        /\ exported.made =>
              /\ exported.total_cost
                    = exported.preset[1].price + SumSeq(RowPrices(exported.md_rows))
              /\ exported.md_total_cost = exported.total_cost
              /\ exported.total_cost = shown.total_cost

C7_Witness ==
    /\ exported.made
    /\ PresetSelected
    /\ weapon_stats.price = 50000
    /\ shown.bundle_price = 500
    /\ shown.cost_mods = 200
    /\ shown.total_cost = 700
    /\ exported.total_cost = 700

\* C8: in a preset build the preset cost is 0 if fallbackBase.type == preset
\* and the preset's listed price otherwise, alike in the on-screen total, the
\* bundle price line, the export record's preset.price and the Markdown
\* report's base-preset line.
C8_PresetCostZeroOnFallback ==
    (Displayed /\ PresetSelected) =>
        LET preset_cost == IF result.fallback_base = "preset" THEN 0
                           ELSE ExpectedPreset.price
        IN  /\ shown.cost_base = preset_cost
            /\ shown.bundle_price = preset_cost
            /\ exported.made =>
                  /\ exported.preset[1].price = preset_cost
                  /\ exported.md_preset[1].price = preset_cost

C8_Witness ==
    /\ exported.made
    /\ PresetSelected
    /\ result.fallback_base = "preset"
    /\ ExpectedPreset.price = 900
    /\ shown.cost_base = 0
    /\ shown.bundle_price = 0
    /\ exported.preset[1].price = 0
    /\ exported.preset[1].is_fallback
    /\ exported.md_preset[1].price = 0

\* C9: the preset record composed is the entry with the selected id in the
\* purchasable preset list if there is one, and the entry with that id in the
\* weapon's full preset catalog only if there is none.
C9_PurchasablePresetFirst ==
    (Displayed /\ PresetSelected) =>
        /\ PresetFound
        /\ shown.preset_name = ExpectedPreset.name
        /\ shown.includes = Cardinality(ExpectedPreset.items)
        /\ shown.additional_items = NonMembers
        /\ ~IsPresetFallback(result) => shown.cost_base = ExpectedPreset.price
        /\ exported.made =>
              /\ exported.preset[1].id = ExpectedPreset.id
              /\ exported.preset[1].name = ExpectedPreset.name
              /\ exported.md_preset[1].name = ExpectedPreset.name
              /\ exported.md_additional = NonMembers

C9_Witness ==
    /\ exported.made
    /\ PurchasableMatches # {}
    /\ CatalogMatches # {}
    /\ presets[Least(PurchasableMatches)] # all_presets[Least(CatalogMatches)]
    /\ shown.preset_name = "P1"
    /\ exported.preset[1].name = "P1"

\* C10 (as claimed): with a preset selected, the items listed and costed as
\* additional mods are exactly the selected items that are not members of
\* the preset: no member is listed or charged, no selected non-member is
\* omitted.
C10_AdditionalModsAreNonMembers ==
    (Displayed /\ PresetSelected) =>
        /\ RowIds(shown.additional_rows) = NonMembers
        /\ exported.made => RowIds(exported.md_rows) = NonMembers

\* C10 (amended): with a preset selected, the items listed and costed as
\* additional mods are exactly the selected items found in the catalog lookup
\* that are not members of the preset: no member is listed or charged, and
\* the only selected non-members omitted are those missing from the lookup.
C10_AdditionalModsAreKnownNonMembers ==
    (Displayed /\ PresetSelected) =>
        LET known == SelectSeq(result.selected_items,
                               LAMBDA id : id \notin ExpectedPreset.items
                                           /\ id \in DOMAIN item_lookup)
        IN  /\ shown.additional_items = NonMembers
            /\ RowIds(shown.additional_rows) = known
            /\ shown.cost_mods = SumSeq(CatalogPrices(known, item_lookup))
            /\ exported.made =>
                  /\ exported.md_additional = NonMembers
                  /\ RowIds(exported.md_rows) = known

C10_Witness ==
    /\ exported.made
    /\ PresetSelected
    /\ Len(result.selected_items) = 2
    /\ \E i, j \in 1..2 :
          /\ result.selected_items[i] \in ExpectedPreset.items
          /\ result.selected_items[j] \notin ExpectedPreset.items
          /\ RowIds(shown.additional_rows) = <<result.selected_items[j]>>
          /\ RowIds(exported.md_rows) = <<result.selected_items[j]>>

----------------------------------------------------------------------------
(* Properties of the session as a whole *)

\* C11: while the optimizer's result is infeasible nothing is ever composed in
\* either tab: the screen holds no total cost, no cost composition and no
\* build section, no export has been generated, and what the user is given
\* is the no-solution status (with the display's error message in the
\* optimize tab).
C11_InfeasibleComposesNothing ==
    result.status = "infeasible" =>
        /\ shown.outcome \in {"none", "infeasible"}
        /\ [shown EXCEPT !.outcome = "none"] = NothingShown
        /\ exported = NothingExported
        /\ status_label = "no_solution"
        /\ (pc = "displayed" => shown.outcome = "infeasible")

C11_Witness ==
    /\ result.status = "infeasible"
    /\ pc = "displayed"
    /\ ~InTaskTab
    /\ shown.outcome = "infeasible"

\* the selected ids the catalog lookup does not hold
MissingIds == { id \in Range(result.selected_items) : id \notin DOMAIN item_lookup }

\* the session is past the call of display_optimization_results
DisplayCalled ==
    /\ result.status \notin {"none", "infeasible"}
    /\ pc \in {"displayed", "done"}

\* ids lists, in selection order, exactly the selected items that are in the
\* lookup and not in excluded
ListsKnownOutside(ids, excluded) ==
    LET sel == result.selected_items
    IN  /\ \A id \in Range(sel) :
              id \in Range(ids) <=> (id \in DOMAIN item_lookup /\ id \notin excluded)
        /\ Range(ids) \subseteq Range(sel)
        /\ \A i, j \in 1..Len(ids) :
              i < j => \E k, l \in 1..Len(sel) :
                          k < l /\ sel[k] = ids[i] /\ sel[l] = ids[j]

\* C19: a selected id missing from the catalog lookup is skipped and nothing
\* else is: the mods table on screen and the Markdown rows list every other
\* selected item outside the preset, in order, the additional-mods cost is the
\* sum of their catalog prices, the export's mods array lists every selected
\* item the lookup holds, and the display faults only on an unresolved
\* preset, never on a missing item.
C19_LookupMissSkipsOnlyThatItem ==
    LET members == IF PresetSelected /\ PresetFound THEN ExpectedPreset.items ELSE {}
    IN  /\ Displayed =>
              /\ ListsKnownOutside(RowIds(shown.additional_rows), members)
              /\ PresetSelected =>
                    shown.cost_mods =
                        SumSeq([i \in 1..Len(shown.additional_rows) |->
                                   item_lookup[shown.additional_rows[i].id].stats.price])
        /\ exported.made =>
              /\ ListsKnownOutside(RowIds(exported.mods), {})
              /\ ListsKnownOutside(RowIds(exported.md_rows), members)
        /\ (DisplayCalled /\ (PresetSelected => PresetFound)) => Displayed
        /\ (pc = "done" /\ Displayed /\ ~InTaskTab) => exported.made

C19_Witness ==
    /\ exported.made
    /\ MissingIds # {}
    /\ Len(result.selected_items) = 2
    /\ Len(shown.additional_rows) = 1
    /\ Len(exported.mods) = 1
    /\ Len(exported.md_rows) = 1

\* C20: once display_optimization_results has been called on a result that
\* is not infeasible, it has run to completion and put a total cost and a
\* cost-composition string on screen.
C20_DisplayRunsToCompletion ==
    DisplayCalled =>
        /\ shown.outcome = "displayed"
        /\ shown.total_cost # None
        /\ shown.cost_label # ""

----------------------------------------------------------------------------
(* The resolver under every input: one call per behaviour *)

NoCall == [label |-> Label("", "", None), price |-> 0, available |-> << >>, best |-> << >>]

ComposeIdle ==
    /\ item_lookup = << >>
    /\ weapon_stats = << >>
    /\ presets = << >>
    /\ all_presets = << >>
    /\ constraints = << >>
    /\ result = << >>
    /\ shown = << >>
    /\ exported = << >>
    /\ status_label = "idle"
    /\ pc = "idle"

InitOffer ==
    /\ stats \in StatsDomain
    /\ trader_levels \in TraderLevelMaps
    /\ flea_available \in BOOLEAN
    /\ player_level \in PlayerLevels
    /\ offer_out = NoCall
    /\ offer_pc = "call"
    /\ ComposeIdle
    /\ LookupIdle
    /\ TaskIdle
    /\ FilterIdle
    /\ PlayerIdle

Resolve ==
    /\ offer_pc = "call"
    /\ offer_out' = get_best_offer_display(stats, trader_levels, flea_available, player_level)
    /\ offer_pc' = "done"
    /\ UNCHANGED <<stats, trader_levels, flea_available, player_level, compose_vars,
                   lookup_vars, task, filter_vars, player>>

NextOffer == Resolve

SpecOffer == InitOffer /\ [][NextOffer]_vars

----------------------------------------------------------------------------
(* Properties of the offer resolver *)

\* Availability as the data model states it, for the call's player context.
\* A trader offer without a required level has no requirement to meet; a call
\* that supplies no character level applies no level restriction to flea.
VendorLevel(offer) ==
    LET vendor == Lower(offer.vendor_normalized)
    IN  IF vendor \in DOMAIN trader_levels THEN trader_levels[vendor] ELSE 4

IsAvailable(offer) ==
    IF offer.source = "fleaMarket"
    THEN flea_available /\ (player_level = None \/ MinLevelFlea(stats) <= player_level)
    ELSE offer.trader_level = None \/ offer.trader_level <= VendorLevel(offer)

AvailableSet == SelectSeq(stats.offers, IsAvailable)

ReturnedUnavailable == offer_out.label = UnavailableLabel /\ offer_out.price = 0

\* C1 (as claimed): the resolver returns ("Unavailable", 0) if and only if no
\* offer is available to the player, the item without any offer included.
C1_UnavailableIffNoneAvailable ==
    offer_pc = "done" => (ReturnedUnavailable <=> AvailableSet = << >>)

\* C1 (amended): for an item that has offers, the resolver returns
\* ("Unavailable", 0) if and only if none of them is available to the player;
\* for an item without any offer it returns the catalog price source and the
\* catalog price instead.
C1_UnavailableIffOffersNoneAvailable ==
    offer_pc = "done" =>
        IF stats.offers = << >>
        THEN /\ offer_out.label = Label(stats.price_source, "", None)
             /\ offer_out.price = stats.price
        ELSE ReturnedUnavailable <=> AvailableSet = << >>

C1_Witness ==
    /\ offer_pc = "done"
    /\ Len(stats.offers) = 2
    /\ AvailableSet = << >>
    /\ ReturnedUnavailable

\* C2: the offers the resolver chooses from are exactly the available ones: a
\* trader offer is kept iff its required level is at most the player's level
\* for that vendor (4 for a vendor missing from the map), a flea offer iff flea
\* is enabled and its unlock level is at most the character level; the chosen
\* offer is one of them.
C2_ChoosesFromExactlyAvailable ==
    offer_pc = "done" =>
        /\ stats.offers # << >> => offer_out.available = AvailableSet
        /\ \A i \in 1..Len(offer_out.best) : IsAvailable(offer_out.best[i])

C2_Witness ==
    /\ offer_pc = "done"
    /\ flea_available
    /\ player_level # None
    /\ trader_levels # << >>
    /\ \E i, j \in 1..Len(stats.offers) :
          /\ stats.offers[i].source = "fleaMarket"
          /\ ~IsAvailable(stats.offers[i])
          /\ stats.offers[j].source = "trader"
          /\ Lower(stats.offers[j].vendor_normalized) \notin DOMAIN trader_levels
          /\ stats.offers[j].trader_level = 4
          /\ offer_out.available = <<stats.offers[j]>>

\* the position in the input list of the first available offer of least price
FirstCheapest ==
    CHOOSE i \in 1..Len(stats.offers) :
        /\ IsAvailable(stats.offers[i])
        /\ \A j \in 1..Len(stats.offers) :
              IsAvailable(stats.offers[j]) =>
                  /\ stats.offers[i].price <= stats.offers[j].price
                  /\ (j < i => stats.offers[i].price < stats.offers[j].price)

\* C3: when some offer is available, the resolver returns the least price
\* among the available offers, and among the available offers of that price
\* the one that comes first in the input list.
C3_CheapestFirstInInputOrder ==
    (offer_pc = "done" /\ AvailableSet # << >>) =>
        /\ offer_out.best = <<stats.offers[FirstCheapest]>>
        /\ offer_out.price = stats.offers[FirstCheapest].price
        /\ offer_out.label = OfferLabel(stats.offers[FirstCheapest], stats)
        /\ \A j \in 1..Len(stats.offers) :
              IsAvailable(stats.offers[j]) => offer_out.price <= stats.offers[j].price

C3_Witness ==
    /\ offer_pc = "done"
    /\ Len(AvailableSet) = 2
    /\ AvailableSet[1].price = AvailableSet[2].price
    /\ AvailableSet[1].vendor_name # AvailableSet[2].vendor_name
    /\ offer_out.best = <<AvailableSet[1]>>

----------------------------------------------------------------------------
(* resolve_item_id, src/app.py:124-150.  A string is the sequence of its    *)
(* characters; item names are drawn from NameChars and queries from         *)
(* QueryChars, so that a name and a query agree only up to case, and a      *)
(* query may carry surrounding or inner whitespace.                         *)

MaxItems == 2
MaxCatalogChars == 5
MaxQueryLen == 2

NameChars == {"A", "b"}
QueryChars == {"a", "B", " "}

\* the keys of item_lookup, in insertion order
LookupIds == <<"i1", "i2", "i3", "i4">>

Queries == SeqsUpTo(QueryChars, MaxQueryLen)

\* the lists of n item names that hold at most budget characters in all
RECURSIVE NameLists(_, _)
NameLists(n, budget) ==
    IF n = 0 THEN {<< >>}
    ELSE UNION { { <<name>> \o rest : rest \in NameLists(n - 1, budget - Len(name)) }
                 : name \in SeqsUpTo(NameChars, budget) }

\* item_lookup.items() for the catalog holding the names, in insertion order
ItemsOf(names) == [i \in 1..Len(names) |-> [id |-> LookupIds[i], name |-> names[i]]]

\* every catalog of at most MaxItems items and MaxCatalogChars characters
LookupItems ==
    { ItemsOf(names) : names \in UNION { NameLists(n, MaxCatalogChars) : n \in 0..MaxItems } }

\* str.lower, character by character
LowerChar(c) == CASE c = "A" -> "a" [] c = "B" -> "b" [] OTHER -> c

StrSame(str) == str

StrLower(str) == [i \in 1..Len(str) |-> LowerChar(str[i])]

\* str.strip: leading and trailing whitespace removed
RECURSIVE LStrip(_)
LStrip(str) == IF str # << >> /\ Head(str) = " " THEN LStrip(Tail(str)) ELSE str
RECURSIVE RStrip(_)
RStrip(str) ==
    IF str # << >> /\ str[Len(str)] = " " THEN RStrip(SubSeq(str, 1, Len(str) - 1)) ELSE str
StripNothing(str) == str

Strip(str) == RStrip(LStrip(str))

\* needle in hay
Contains(needle, hay) ==
    \E k \in 0..(Len(hay) - Len(needle)) : SubSeq(hay, k + 1, k + Len(needle)) = needle

\* lines 134-142: the loop over item_lookup.items(); exact is the id the loop
\* returned, or NoneId when it ran to its end
RECURSIVE ScanItems(_, _, _)
ScanItems(items, query_lower, candidates_substring) ==
    IF items = << >> THEN [exact |-> NoneId, candidates |-> candidates_substring]
    ELSE LET item_id == Head(items).id
             name_lower == StrLower(Head(items).name)
         IN  IF name_lower = query_lower
             THEN [exact |-> item_id, candidates |-> candidates_substring]
             ELSE ScanItems(Tail(items), query_lower,
                            IF Contains(query_lower, name_lower)
                            THEN Append(candidates_substring, item_id)
                            ELSE candidates_substring)

\* len(item_lookup[i]["data"]["name"])
NameLen(items, id) == Len((CHOOSE it \in Range(items) : it.id = id).name)

\* list.sort(key=...) is stable: an element goes after the elements whose key
\* is not greater
RECURSIVE InsertByNameLen(_, _, _)
InsertByNameLen(id, sorted, items) ==
    IF sorted = << >> THEN <<id>>
    ELSE IF NameLen(items, id) < NameLen(items, Head(sorted))
         THEN <<id>> \o sorted
         ELSE <<Head(sorted)>> \o InsertByNameLen(id, Tail(sorted), items)

RECURSIVE SortedPrefix(_, _, _)
SortedPrefix(ids, n, items) ==
    IF n = 0 THEN << >>
    ELSE InsertByNameLen(ids[n], SortedPrefix(ids, n - 1, items), items)

KeepOrder(ids, items) == ids

\* line 147
SortByNameLen(ids, items) == SortedPrefix(ids, Len(ids), items)

resolve_item_id(query, items) ==
    LET query_lower == Strip(StrLower(query))
        scan == ScanItems(items, query_lower, << >>)
    IN  IF scan.exact # NoneId THEN scan.exact
        ELSE IF scan.candidates # << >>
             THEN SortByNameLen(scan.candidates, items)[1]
             ELSE NoneId

\* one call of the resolver per behaviour
InitLookup ==
    /\ lookup_items \in LookupItems
    /\ name_query \in Queries
    /\ resolved_id = NoneId
    /\ resolve_pc = "call"
    /\ OfferIdle
    /\ ComposeIdle
    /\ TaskIdle
    /\ FilterIdle
    /\ PlayerIdle

ResolveItem ==
    /\ resolve_pc = "call"
    /\ resolved_id' = resolve_item_id(name_query, lookup_items)
    /\ resolve_pc' = "done"
    /\ UNCHANGED <<lookup_items, name_query, offer_vars, compose_vars, task, filter_vars, player>>

NextLookup == ResolveItem

SpecLookup == InitLookup /\ [][NextLookup]_vars

----------------------------------------------------------------------------
(* Properties of the fuzzy item resolver *)

\* two characters that are the same letter in either case
SameLetter(c, d) == c = d \/ {c, d} = {"a", "A"} \/ {c, d} = {"b", "B"}

\* two strings equal case-insensitively
CaseEq(x, y) == Len(x) = Len(y) /\ \A i \in 1..Len(x) : SameLetter(x[i], y[i])

\* hay contains needle case-insensitively
CaseContains(needle, hay) ==
    \E k \in 0..(Len(hay) - Len(needle)) :
        CaseEq(SubSeq(hay, k + 1, k + Len(needle)), needle)

\* the places of the catalog whose name equals / contains the string
ExactPlaces(q) == { i \in 1..Len(lookup_items) : CaseEq(lookup_items[i].name, q) }
ContainingPlaces(q) == { i \in 1..Len(lookup_items) : CaseContains(q, lookup_items[i].name) }

\* the earliest of the shortest names that contain the string
ShortestContaining(q) ==
    CHOOSE i \in ContainingPlaces(q) :
        \A j \in ContainingPlaces(q) :
            \/ Len(lookup_items[i].name) < Len(lookup_items[j].name)
            \/ Len(lookup_items[i].name) = Len(lookup_items[j].name) /\ i <= j

\* the query without its surrounding whitespace
Trimmed(q) ==
    LET inked == { i \in 1..Len(q) : q[i] # " " }
    IN  IF inked = {} THEN << >>
        ELSE SubSeq(q, CHOOSE i \in inked : \A j \in inked : i <= j,
                       CHOOSE i \in inked : \A j \in inked : j <= i)

SubstringRule(q) ==
    (resolve_pc = "done" /\ ExactPlaces(q) = {}) =>
        /\ resolved_id = NoneId <=> ContainingPlaces(q) = {}
        /\ ContainingPlaces(q) # {} => resolved_id = lookup_items[ShortestContaining(q)].id

\* C13 (as claimed): when no name equals the query case-insensitively, the
\* resolver returns the item whose name contains the query and is shortest,
\* the earliest in catalog order among equally short names, and None if and
\* only if no name contains the query.
C13_ShortestContainingQuery == SubstringRule(name_query)

\* C13 (amended): the same rule holds of the query with its surrounding
\* whitespace removed: when no name equals the trimmed query, the resolver
\* returns the earliest of the shortest names that contain the trimmed query,
\* and None if and only if no name contains the trimmed query.
C13_ShortestContainingTrimmedQuery == SubstringRule(Trimmed(name_query))

C13_Witness ==
    /\ resolve_pc = "done"
    /\ Len(lookup_items) = 2
    /\ Trimmed(name_query) # name_query
    /\ Trimmed(name_query) # << >>
    /\ ExactPlaces(Trimmed(name_query)) = {}
    /\ ContainingPlaces(Trimmed(name_query)) = {1, 2}
    /\ Len(lookup_items[2].name) < Len(lookup_items[1].name)
    /\ resolved_id = lookup_items[2].id

----------------------------------------------------------------------------
(* The task tab's button handler up to the optimizer call,                  *)
(* src/app.py:1566-1626: find the task's weapon, resolve the required item  *)
(* names one by one, warn about the misses, run the optimizer.              *)

MaxRequired == 2

\* task["required_items"]: names that resolve exactly, through strip(), by
\* substring, nowhere (inner whitespace), and to whatever is shortest
RequiredNames == { <<"a">>, <<"B", " ">>, <<"a", "B">>, <<"a", " ", "a">>, << >>, <<" ">> }

TaskItemNames == { <<"A">>, <<"A", "b">>, <<"b", "A", "b">>, << >> }

TaskLookupItems ==
    { ItemsOf(names) : names \in UNION { [1..n -> TaskItemNames] : n \in 0..MaxItems } }

\* the handler's frame before the button is pressed
TaskFrame(required_items, target_gun_id) ==
    [required_items |-> required_items, target_gun_id |-> target_gun_id,
     next |-> 1, task_include_items |-> {}, missing_items |-> << >>,
     warnings |-> << >>, include_items |-> {}, pc |-> "button"]

InitTask ==
    /\ lookup_items \in TaskLookupItems
    /\ \E required_items \in SeqsUpTo(RequiredNames, MaxRequired),
          target_gun_id \in {NoneId, "g1"} :
          task = TaskFrame(required_items, target_gun_id)
    /\ name_query = << >>
    /\ resolved_id = NoneId
    /\ resolve_pc = "idle"
    /\ OfferIdle
    /\ ComposeIdle
    /\ FilterIdle
    /\ PlayerIdle

task_rest == <<lookup_items, name_query, resolved_id, resolve_pc, offer_vars,
               compose_vars, filter_vars, player>>

\* lines 1566-1578: the weapon is looked up by name; without it the handler
\* reports the error and does nothing else
TaskStart ==
    /\ task.pc = "button"
    /\ task' = [task EXCEPT !.pc = IF task.target_gun_id = NoneId
                                   THEN "weapon_not_found" ELSE "resolving"]
    /\ UNCHANGED task_rest

AddAlways(include, id) == include \cup {id}

\* lines 1581-1582: if resolved_id: task_include_items.add(resolved_id)
AddResolved(include, id) == IF id # NoneId THEN include \cup {id} ELSE include

\* lines 1583-1584: else: missing_items.append(item_name)
AppendMissing(missing, id, item_name) ==
    IF id # NoneId THEN missing ELSE Append(missing, item_name)

\* line 1579: the loop has a name left / has been through every name
LoopHasNext == task.pc = "resolving" /\ task.next <= Len(task.required_items)
LoopDone == task.pc = "resolving" /\ task.next > Len(task.required_items)

\* lines 1579-1584: one iteration of the loop over the required names
ResolveRequired ==
    /\ LoopHasNext
    /\ LET item_name == task.required_items[task.next]
           id == resolve_item_id(item_name, lookup_items)
       IN  task' = [task EXCEPT
                       !.task_include_items = AddResolved(@, id),
                       !.missing_items = AppendMissing(@, id, item_name),
                       !.next = @ + 1]
    /\ UNCHANGED task_rest

\* lines 1595-1626: after the loop every missing name is warned about and
\* optimize_weapon is called with include_items=task_include_items
WarnAndOptimize ==
    /\ LoopDone
    /\ task' = [task EXCEPT !.warnings = task.missing_items,
                            !.include_items = task.task_include_items,
                            !.pc = "optimizing"]
    /\ UNCHANGED task_rest

NextTask == TaskStart \/ ResolveRequired \/ WarnAndOptimize

SpecTask == InitTask /\ [][NextTask]_vars

----------------------------------------------------------------------------
(* Properties of the required-item resolution *)

\* the required names the loop has been through
Processed == 1..(task.next - 1)

\* where the k-th required name has gone
InInclusion(k) ==
    resolve_item_id(task.required_items[k], lookup_items) \in task.task_include_items
InMissing(k) == task.required_items[k] \in Range(task.missing_items)
IsMiss(k) == resolve_item_id(task.required_items[k], lookup_items) = NoneId

\* C14: every required name the loop has been through is in exactly one of
\* two places, its resolved id in the inclusion set or its name in the missing
\* list; a miss adds nothing to the inclusion set, which holds item ids of the
\* catalog only; the loop is never left before its last name, whatever the
\* misses so far, and in each of its states the next iteration or the
\* optimizer call can be taken; once every name has been through, the
\* optimizer is called with that inclusion set and the missing names are the
\* warnings.
C14_RequiredNamePartition ==
    task.pc \in {"resolving", "optimizing"} =>
        /\ \A k \in Processed : \/ InInclusion(k) /\ ~IsMiss(k) /\ ~InMissing(k)
                                \/ IsMiss(k) /\ InMissing(k)
        /\ task.task_include_items \subseteq { lookup_items[i].id : i \in 1..Len(lookup_items) }
        /\ Cardinality(task.task_include_items) <= Cardinality({ k \in Processed : ~IsMiss(k) })
        /\ Len(task.missing_items) = Cardinality({ k \in Processed : IsMiss(k) })
        /\ task.pc = "resolving" => LoopHasNext \/ LoopDone
        /\ task.next <= Len(task.required_items) => task.pc = "resolving"
        /\ task.pc = "optimizing" =>
              /\ Processed = 1..Len(task.required_items)
              /\ task.include_items = task.task_include_items
              /\ task.warnings = task.missing_items

C14_Witness ==
    /\ task.pc = "optimizing"
    /\ Len(task.required_items) = 2
    /\ IsMiss(1)
    /\ ~IsMiss(2)
    /\ task.warnings = <<task.required_items[1]>>
    /\ Cardinality(task.include_items) = 1

----------------------------------------------------------------------------
(* The cascading sidebar filters of main, src/app.py:706-813.  A selection  *)
(* list is modelled as the set of its entries.  A multiselect returns a     *)
(* subset of the options it was given; each change of a selection is one    *)
(* run of the script, which ends in st.rerun().                             *)

MaxGuns == 3

\* gun["bsgCategory"]: None, or a dict with a name
RawCategories == {NoneId, "Assault rifle", "SMG"}

\* gun["properties"]["caliber"]: missing, or the game's caliber id
RawCalibers == {"", "Caliber9x19PARA", "Caliber556x45NATO"}

GunLists == SeqsUpTo([bsgCategory : RawCategories, caliber : RawCalibers], MaxGuns)

\* lines 713-715
get_category_name(gun) == IF gun.bsgCategory = NoneId THEN "" ELSE gun.bsgCategory

\* lines 707-710: caliber.replace("Caliber", "").strip()
get_caliber_display(gun) ==
    CASE gun.caliber = "Caliber9x19PARA" -> "9x19PARA"
      [] gun.caliber = "Caliber556x45NATO" -> "556x45NATO"
      [] OTHER -> ""

\* lines 734-744: the keys of available_caliber_counts
AvailableCalibers(gun_list, types) ==
    { get_caliber_display(g) :
        g \in { h \in Range(gun_list) : types = {} \/ get_category_name(h) \in types } }
    \ {""}

\* lines 746-756: the keys of available_category_counts
AvailableCategories(gun_list, calibers) ==
    { get_category_name(g) :
        g \in { h \in Range(gun_list) : calibers = {} \/ get_caliber_display(h) \in calibers } }
    \ {""}

AllCategories(gun_list, calibers) == AvailableCategories(gun_list, {})

\* lines 759 and 767-769: the options of the gun type multiselect
category_options(gun_list, calibers) == AvailableCategories(gun_list, calibers)

\* lines 760 and 792-794: the options of the caliber multiselect
caliber_options(gun_list, types) == AvailableCalibers(gun_list, types)

KeepCalibers(gun_list, types, calibers) == calibers

\* lines 780-788: the calibers kept when the type selection becomes types
PruneCalibers(gun_list, types, calibers) ==
    IF types # {}
    THEN LET new_available_calibers ==
                 { get_caliber_display(g) :
                     g \in { h \in Range(gun_list) : get_category_name(h) \in types } } \ {""}
         IN  calibers \cap new_available_calibers
    ELSE calibers

KeepTypes(gun_list, calibers, types) == types

\* lines 804-812: the types kept when the caliber selection becomes calibers
PruneTypes(gun_list, calibers, types) ==
    IF calibers # {}
    THEN LET new_available_types ==
                 { get_category_name(g) :
                     g \in { h \in Range(gun_list) : get_caliber_display(h) \in calibers } } \ {""}
         IN  types \cap new_available_types
    ELSE types

\* lines 728-732: both selections start empty
InitFilter ==
    /\ guns \in GunLists
    /\ selected_types = {}
    /\ selected_calibers = {}
    /\ filter_last = [op |-> "none", arg |-> {}, prev |-> {}]
    /\ OfferIdle
    /\ ComposeIdle
    /\ LookupIdle
    /\ TaskIdle
    /\ PlayerIdle

filter_rest == <<guns, offer_vars, compose_vars, lookup_vars, task, player>>

\* lines 764-789: the gun type multiselect returned a changed selection
setCategories ==
    \E newCategories \in SUBSET category_options(guns, selected_calibers) :
        /\ newCategories # selected_types
        /\ selected_types' = newCategories
        /\ selected_calibers' = PruneCalibers(guns, newCategories, selected_calibers)
        /\ filter_last' = [op |-> "setCategories", arg |-> newCategories,
                           prev |-> selected_calibers]
        /\ UNCHANGED filter_rest

\* lines 791-813: the caliber multiselect returned a changed selection
setCalibers ==
    \E newCalibers \in SUBSET caliber_options(guns, selected_types) :
        /\ newCalibers # selected_calibers
        /\ selected_calibers' = newCalibers
        /\ selected_types' = PruneTypes(guns, newCalibers, selected_types)
        /\ filter_last' = [op |-> "setCalibers", arg |-> newCalibers,
                           prev |-> selected_types]
        /\ UNCHANGED filter_rest

NextFilter == setCategories \/ setCalibers

SpecFilter == InitFilter /\ [][NextFilter]_vars

----------------------------------------------------------------------------
(* Properties of the cascading filters *)

\* the guns of a category / of a caliber
GunsOfCategory(cat) == { i \in 1..Len(guns) : get_category_name(guns[i]) = cat }
GunsOfCaliber(cal) == { i \in 1..Len(guns) : get_caliber_display(guns[i]) = cal }

\* C15: in every state reached from the empty selection, every selected
\* category has a gun whose caliber is selected (any gun of its own when no
\* caliber is selected), and every selected caliber has a gun whose category
\* is selected (any gun of its own when no category is selected).
C15_SelectionsSupportEachOther ==
    /\ \A cat \in selected_types :
          \E i \in GunsOfCategory(cat) :
              selected_calibers = {} \/ get_caliber_display(guns[i]) \in selected_calibers
    /\ \A cal \in selected_calibers :
          \E i \in GunsOfCaliber(cal) :
              selected_types = {} \/ get_category_name(guns[i]) \in selected_types

C15_Witness ==
    /\ filter_last.op = "setCalibers"
    /\ selected_calibers # {}
    /\ selected_types # {}
    /\ selected_types # filter_last.prev

\* the calibers of the guns whose category is in cats, of all guns when cats
\* is empty
CalibersUnder(cats) ==
    { get_caliber_display(guns[i]) :
        i \in { j \in 1..Len(guns) : cats = {} \/ get_category_name(guns[j]) \in cats } }

\* the categories of the guns whose caliber is in cals, of all guns when cals
\* is empty
CategoriesUnder(cals) ==
    { get_category_name(guns[i]) :
        i \in { j \in 1..Len(guns) : cals = {} \/ get_caliber_display(guns[j]) \in cals } }

\* C16: after setCategories(newCategories) the selected categories are
\* newCategories and the selected calibers are the previously selected ones
\* that are calibers of guns of the new categories (of any gun when
\* newCategories is empty, which keeps them all).
C16_SetCategoriesPrunesCalibers ==
    filter_last.op = "setCategories" =>
        /\ selected_types = filter_last.arg
        /\ selected_calibers = filter_last.prev \cap CalibersUnder(filter_last.arg)
        /\ filter_last.arg = {} => selected_calibers = filter_last.prev

C16_Witness ==
    /\ filter_last.op = "setCategories"
    /\ selected_types # {}
    /\ selected_calibers # {}
    /\ selected_calibers # filter_last.prev

\* C17: after setCalibers(newCalibers) the selected calibers are newCalibers
\* and the selected categories are the previously selected ones that are
\* categories of guns of the new calibers (of any gun when newCalibers is
\* empty); no category is added.
C17_SetCalibersPrunesCategories ==
    filter_last.op = "setCalibers" =>
        /\ selected_calibers = filter_last.arg
        /\ selected_types = filter_last.prev \cap CategoriesUnder(filter_last.arg)
        /\ selected_types \subseteq filter_last.prev

C17_Witness ==
    /\ filter_last.op = "setCalibers"
    /\ filter_last.arg # {}
    /\ selected_types # {}
    /\ selected_types # filter_last.prev
    /\ Cardinality(selected_calibers) = 1

----------------------------------------------------------------------------
(* Further properties of the offer resolver *)

\* the flea unlock level the item requires: its min_level_flea, 15 when the
\* field is missing or zero
RequiredFleaLevel == IF stats.min_level_flea = 0 THEN 15 ELSE stats.min_level_flea

\* C22: when an offer is chosen, the returned price is that offer's price and
\* the label is built from that same offer: "Flea Lv{N}" with N the item's
\* flea unlock level for a flea offer, "{vendorName} LL{level}" for a trader
\* offer with a required level, the plain vendor name for a trader offer
\* without one.
C22_LabelFollowsChosenOffer ==
    (offer_pc = "done" /\ offer_out.best # << >>) =>
        LET chosen == offer_out.best[1]
        IN  /\ \E i \in 1..Len(stats.offers) : stats.offers[i] = chosen
            /\ offer_out.price = chosen.price
            /\ chosen.source = "fleaMarket" =>
                  offer_out.label = [text |-> "Flea", sep |-> " Lv",
                                     level |-> RequiredFleaLevel]
            /\ (chosen.source # "fleaMarket" /\ chosen.trader_level # None) =>
                  offer_out.label = [text |-> chosen.vendor_name, sep |-> " LL",
                                     level |-> chosen.trader_level]
            /\ (chosen.source # "fleaMarket" /\ chosen.trader_level = None) =>
                  offer_out.label = [text |-> chosen.vendor_name, sep |-> "",
                                     level |-> None]

C22_Witness ==
    /\ offer_pc = "done"
    /\ Len(stats.offers) = 2
    /\ offer_out.best # << >>
    /\ offer_out.best[1].source = "trader"
    /\ offer_out.best[1] = stats.offers[2]
    /\ offer_out.label = [text |-> "Mechanic", sep |-> " LL", level |-> 2]
    /\ stats.offers[1].source = "fleaMarket"

\* C27: for an item with an empty offer list the resolver returns the
\* catalog price_source (default 'market') as the label and the catalog price
\* (default 0), whatever the trader levels, the flea flag and the player
\* level are.
C27_NoOffersReturnsCatalogPricing ==
    (offer_pc = "done" /\ stats.offers = << >>) =>
        /\ offer_out.label = [text |-> stats.price_source, sep |-> "", level |-> None]
        /\ offer_out.price = stats.price
        /\ offer_out.label.text \in {"market", "not_available"}

C27_Witness ==
    /\ offer_pc = "done"
    /\ stats.offers = << >>
    /\ ~flea_available
    /\ player_level = 10
    /\ trader_levels # << >>
    /\ offer_out.label.text = "not_available"
    /\ offer_out.price = 150

----------------------------------------------------------------------------
(* Further properties of the composition and the export *)

\* C24: in the export record the preset field is null exactly when no preset
\* is selected; with a preset selected it carries the id and name of the
\* resolved preset, its is_fallback flag is true exactly when
\* fallback_base.type is "preset", and then its price is 0.
C24_ExportPresetField ==
    exported.made =>
        /\ exported.preset = << >> <=> ~PresetSelected
        /\ PresetSelected =>
              /\ Len(exported.preset) = 1
              /\ exported.preset[1].id = result.selected_preset
              /\ exported.preset[1].id = ExpectedPreset.id
              /\ exported.preset[1].name = ExpectedPreset.name
              /\ exported.preset[1].is_fallback <=> result.fallback_base = "preset"
              /\ exported.preset[1].is_fallback => exported.preset[1].price = 0

C24_Witness ==
    /\ exported.made
    /\ PresetSelected
    /\ result.fallback_base = "preset"
    /\ PurchasableMatches = {}
    /\ exported.preset[1].id = "p1"
    /\ exported.preset[1].name = "P1 catalog"
    /\ exported.preset[1].is_fallback
    /\ exported.preset[1].price = 0

\* what generate_build_export returns for the inputs of the session
ExportOfSession ==
    generate_build_export(result, item_lookup, weapon_stats, presets, all_presets,
                          constraints)

\* C25: once the display has been called on a result that is not infeasible,
\* the total cost on screen is the total_cost the export computes from the
\* same inputs, and the preset cost and additional-mods cost on screen are
\* the ones the export uses, also for a fallback preset and for a preset id
\* found in neither list.
C25_DisplayTotalEqualsExportTotal ==
    DisplayCalled =>
        /\ shown.total_cost = ExportOfSession.total_cost
        /\ PresetSelected =>
              /\ ExportOfSession.preset[1].price = shown.cost_base
              /\ ExportOfSession.total_cost - ExportOfSession.preset[1].price
                    = shown.cost_mods

\* the sum of the prices listed in the export's mods array
ModsArrayPrices == SumSeq(RowPrices(exported.mods))

\* C30: in a preset build the export's mods array lists, in selection order,
\* every selected item the lookup holds, preset members included, while the
\* Markdown Modifications table lists only those that are not preset
\* members; the prices of the mods array therefore sum to at least the
\* additional-mods cost inside total_cost, and to more when a member is
\* selected.
C30_ModsArrayIncludesPresetMembers ==
    (exported.made /\ PresetSelected) =>
        LET mods_cost == exported.total_cost - exported.preset[1].price
            members == { id \in Range(result.selected_items) :
                            id \in ExpectedPreset.items /\ id \in DOMAIN item_lookup }
        IN  /\ ListsKnownOutside(RowIds(exported.mods), {})
            /\ ListsKnownOutside(RowIds(exported.md_rows), ExpectedPreset.items)
            /\ members \subseteq Range(RowIds(exported.mods))
            /\ members \cap Range(RowIds(exported.md_rows)) = {}
            /\ ModsArrayPrices >= mods_cost
            /\ members # {} => ModsArrayPrices > mods_cost

C30_Witness ==
    /\ exported.made
    /\ PresetSelected
    /\ Len(exported.mods) = 2
    /\ Len(exported.md_rows) = 1
    /\ exported.mods[1].id \in ExpectedPreset.items
    /\ exported.md_rows[1].id = exported.mods[2].id
    /\ ModsArrayPrices > exported.total_cost - exported.preset[1].price

----------------------------------------------------------------------------
(* Player context of the sidebar, src/app.py:915-986, and its way into the
   optimizer and the offer resolver, src/app.py:1436-1479 and 1610-1643 *)

MinPlayerLevel == 1
MaxPlayerLevel == 79
FleaUnlockLevel == 15

\* levels the number input can hold: both ends, both sides of the unlock level
SidebarLevels == {MinPlayerLevel, FleaUnlockLevel - 1, FleaUnlockLevel, 20, MaxPlayerLevel}

\* the trader dict, restricted to the trader the catalog's offers name;
\* the "all LL1" and "all LL4" buttons set every trader to one level
SidebarTraderLevels == { [prapor |-> l] : l \in {1, DefaultTraderLevel} }

PlayerItemStats == {GatedStats, FleaStats, NoOfferStats}

\* flea_unlocked and flea_available, src/app.py:928-943
FleaAvailable(level, checkbox) ==
    IF level >= FleaUnlockLevel THEN checkbox ELSE FALSE

NotCalled == [called |-> FALSE]

\* the sidebar part of one script run: inputs in, context out, nothing
\* of an earlier button press left on screen
Sidebar(stats_, player_level_, checkbox, trader_levels_) ==
    [stats |-> stats_, player_level |-> player_level_, checkbox |-> checkbox,
     trader_levels |-> trader_levels_,
     flea_available |-> FleaAvailable(player_level_, checkbox),
     tab |-> "none", optimizer |-> NotCalled, resolver |-> NotCalled]

InitPlayer ==
    /\ OfferIdle
    /\ ComposeIdle
    /\ LookupIdle
    /\ TaskIdle
    /\ FilterIdle
    /\ \E st \in PlayerItemStats :
          player = Sidebar(st, MaxPlayerLevel, TRUE, [prapor |-> DefaultTraderLevel])

player_rest == <<offer_vars, compose_vars, lookup_vars, task, filter_vars>>

\* number_input; the enabled checkbox is a widget of its own and comes back
\* with value=True after a run in which it was not rendered
SetPlayerLevel(level) ==
    /\ ~PlayerIdle
    /\ level # player.player_level
    /\ player' = Sidebar(player.stats, level,
                         IF player.player_level >= FleaUnlockLevel
                             THEN player.checkbox ELSE TRUE,
                         player.trader_levels)
    /\ UNCHANGED player_rest

\* the checkbox can only be clicked while it is enabled
ToggleFlea ==
    /\ ~PlayerIdle
    /\ player.player_level >= FleaUnlockLevel
    /\ player' = Sidebar(player.stats, player.player_level, ~player.checkbox,
                         player.trader_levels)
    /\ UNCHANGED player_rest

SetTraderLevels(tl) ==
    /\ ~PlayerIdle
    /\ tl # player.trader_levels
    /\ player' = Sidebar(player.stats, player.player_level, player.checkbox, tl)
    /\ UNCHANGED player_rest

\* keyword arguments of optimize_weapon, the same in both tabs
OptimizerCall(p) ==
    [called |-> TRUE, trader_levels |-> p.trader_levels,
     flea_available |-> p.flea_available, player_level |-> p.player_level]

\* display_mods_table reads the three keys off the constraints it was given
\* and hands them to get_best_offer_display, src/app.py:238-262
ResolverCall(p, cons) ==
    [called |-> TRUE, trader_levels |-> cons.trader_levels,
     flea_available |-> cons.flea_available, player_level |-> cons.player_level,
     row |-> ModsRow("m1", [id \in {"m1"} |-> Item("A", p.stats)], cons)]

\* optimize tab: the constraints dict carries the sidebar's context
OptimizeTabConstraints(p) ==
    [trader_levels |-> p.trader_levels, flea_available |-> p.flea_available,
     player_level |-> p.player_level]

RunOptimizeTab ==
    /\ ~PlayerIdle
    /\ player.tab = "none"
    /\ player' = [player EXCEPT !.tab = "optimize",
                                !.optimizer = OptimizerCall(player),
                                !.resolver = ResolverCall(player, OptimizeTabConstraints(player))]
    /\ UNCHANGED player_rest

\* task tab: the display gets a copy of the task's own constraints
RunTaskTab ==
    /\ ~PlayerIdle
    /\ player.tab = "none"
    /\ player' = [player EXCEPT !.tab = "task",
                                !.optimizer = OptimizerCall(player),
                                !.resolver = ResolverCall(player, TaskConstraints)]
    /\ UNCHANGED player_rest

NextPlayer ==
    \/ \E level \in SidebarLevels : SetPlayerLevel(level)
    \/ ToggleFlea
    \/ \E tl \in SidebarTraderLevels : SetTraderLevels(tl)
    \/ RunOptimizeTab
    \/ RunTaskTab

SpecPlayer == InitPlayer /\ [][NextPlayer]_vars

\* C28: for a player below level 15 the flea flag handed to the optimizer and
\* the flag handed to the offer resolver are both false, whatever the checkbox
\* holds, and the row the resolver produced is not a flea offer
C28_NoFleaBelowLevel15 ==
    (~PlayerIdle /\ player.player_level < FleaUnlockLevel) =>
        /\ ~player.flea_available
        /\ player.optimizer.called => ~player.optimizer.flea_available
        /\ player.resolver.called =>
              /\ ~player.resolver.flea_available
              /\ player.resolver.row.source.text # "Flea"

----------------------------------------------------------------------------
(* Blank required names of a task, src/app.py:124-150 and 1577-1584 *)

\* the k-th required name is empty or holds whitespace only
Blank(k) == Trimmed(task.required_items[k]) = << >>

\* the earliest of the shortest names of the catalog; a name that is itself
\* empty is a shortest one
ShortestNamed == lookup_items[ShortestContaining(<< >>)].id

\* C29: for a non-empty catalog, a required name that is empty or only
\* whitespace is never a miss: the id of the shortest-named catalog item (the
\* earliest of them, an empty name counting as shortest) is put into the
\* inclusion set, the name is not put into the missing list, and the optimizer
\* is called with that id among its include_items.
C29_BlankNameResolvesToShortest ==
    (task.pc \in {"resolving", "optimizing"} /\ lookup_items # << >>) =>
        \A k \in Processed :
            Blank(k) =>
                /\ ShortestNamed \in task.task_include_items
                /\ ~InMissing(k)
                /\ task.pc = "optimizing" => ShortestNamed \in task.include_items

C29_Witness ==
    /\ task.pc = "optimizing"
    /\ Len(lookup_items) = 2
    /\ Len(lookup_items[1].name) > Len(lookup_items[2].name)
    /\ lookup_items[2].name # << >>
    /\ task.required_items = << <<" ">> >>
    /\ task.include_items = {lookup_items[2].id}
    /\ task.warnings = << >>

----------------------------------------------------------------------------
(* The weapons matching both filters and the option counts of the two
   multiselects, src/app.py:717-830 *)

filtered_gunsUnguarded(gun_list, types, calibers) ==
    SelectSeq(SelectSeq(gun_list, LAMBDA g : get_category_name(g) \in types),
              LAMBDA g : get_caliber_display(g) \in calibers)

\* lines 815-820: an empty selection filters nothing
filtered_guns(gun_list, types, calibers) ==
    LET by_type == IF types # {}
                   THEN SelectSeq(gun_list, LAMBDA g : get_category_name(g) \in types)
                   ELSE gun_list
    IN  IF calibers # {}
        THEN SelectSeq(by_type, LAMBDA g : get_caliber_display(g) \in calibers)
        ELSE by_type

\* lines 822-830: gun_options has a key for every filtered gun, so gun_names
\* is empty exactly when filtered_guns is; the run then warns and stops
NoWeaponsMatch(gun_list, types, calibers) ==
    filtered_guns(gun_list, types, calibers) = << >>

\* C26: for a non-empty catalog, in every state reached by category and
\* caliber edits drawn from the offered options, some weapon matches both
\* selections: the run never stops with "No weapons match the selected
\* filters".
C26_SomeWeaponAlwaysMatches ==
    guns # << >> => ~NoWeaponsMatch(guns, selected_types, selected_calibers)

C26_Witness ==
    /\ filter_last.op = "setCalibers"
    /\ filter_last.prev # selected_types
    /\ selected_types # {}
    /\ selected_calibers # {}
    /\ Len(filtered_guns(guns, selected_types, selected_calibers)) = 1
    /\ Len(guns) = MaxGuns

\* lines 717-726: counts over the whole catalog; no later line reads them
all_category_counts(gun_list) ==
    [cat \in { get_category_name(g) : g \in Range(gun_list) } \ {""} |->
        Len(SelectSeq(gun_list, LAMBDA g : get_category_name(g) = cat))]

all_caliber_counts(gun_list) ==
    [cal \in { get_caliber_display(g) : g \in Range(gun_list) } \ {""} |->
        Len(SelectSeq(gun_list, LAMBDA g : get_caliber_display(g) = cal))]

\* lines 734-744: counts over the guns of the selected types
available_caliber_counts(gun_list, types) ==
    LET guns_of_selected_types ==
            IF types # {}
            THEN SelectSeq(gun_list, LAMBDA g : get_category_name(g) \in types)
            ELSE gun_list
    IN  [cal \in { get_caliber_display(g) : g \in Range(guns_of_selected_types) } \ {""} |->
            Len(SelectSeq(guns_of_selected_types, LAMBDA g : get_caliber_display(g) = cal))]

\* lines 746-756: counts over the guns of the selected calibers
available_category_counts(gun_list, calibers) ==
    LET guns_of_selected_calibers ==
            IF calibers # {}
            THEN SelectSeq(gun_list, LAMBDA g : get_caliber_display(g) \in calibers)
            ELSE gun_list
    IN  [cat \in { get_category_name(g) : g \in Range(guns_of_selected_calibers) } \ {""} |->
            Len(SelectSeq(guns_of_selected_calibers, LAMBDA g : get_category_name(g) = cat))]

\* lines 762-765: "{option} ({count})"
format_with_count(option, counts) ==
    [option |-> option, count |-> IF option \in DOMAIN counts THEN counts[option] ELSE 0]

\* lines 767-774 and 791-798: the labels of the two multiselects in one run
TypeLabels(gun_list, types, calibers) ==
    { format_with_count(x, available_category_counts(gun_list, calibers)) :
        x \in category_options(gun_list, calibers) }

CaliberLabels(gun_list, types, calibers) ==
    { format_with_count(x, available_caliber_counts(gun_list, types)) :
        x \in caliber_options(gun_list, types) }

\* the guns of a category / of a caliber, among the places given
OfCategory(places, cat) == { i \in places : get_category_name(guns[i]) = cat }
OfCaliber(places, cal) == { i \in places : get_caliber_display(guns[i]) = cal }

AllPlaces == 1..Len(guns)

\* the places of the guns matching the selected types / the selected calibers
PlacesOfSelectedTypes ==
    { i \in AllPlaces : selected_types = {} \/ get_category_name(guns[i]) \in selected_types }
PlacesOfSelectedCalibers ==
    { i \in AllPlaces : selected_calibers = {} \/ get_caliber_display(guns[i]) \in selected_calibers }

\* C23 (as claimed): in the run after an edit, the counts shown for the
\* options of the edited facet are counts over the whole catalog, and the
\* counts shown for the options of the other facet are counts over the guns
\* matching the selected values of the edited facet.
C23_EditedFacetCountsFullCatalog ==
    LET types == TypeLabels(guns, selected_types, selected_calibers)
        calibers == CaliberLabels(guns, selected_types, selected_calibers)
    IN  /\ filter_last.op = "setCategories" =>
              /\ \A l \in types : l.count = Cardinality(OfCategory(AllPlaces, l.option))
              /\ \A l \in calibers :
                    l.count = Cardinality(OfCaliber(PlacesOfSelectedTypes, l.option))
        /\ filter_last.op = "setCalibers" =>
              /\ \A l \in calibers : l.count = Cardinality(OfCaliber(AllPlaces, l.option))
              /\ \A l \in types :
                    l.count = Cardinality(OfCategory(PlacesOfSelectedCalibers, l.option))

----------------------------------------------------------------------------
(* Ergonomics on screen and in the export, src/app.py:307-317 and 583-604 *)

\* the aggregated ergonomics of the session's build, in hundredths
RawErgonomics == TotalErgonomics(weapon_stats, result.selected_items, item_lookup)

\* x held to the range 0..100
Clamped(x) == IF x < 0 THEN 0 ELSE IF x > 10000 THEN 10000 ELSE x

\* tenths is x to one decimal
Rendered(tenths, x) == 10 * tenths - x \in -5..5

\* C21: the ergonomics value on screen is the raw aggregated ergonomics held
\* to [0,100], to one decimal; the values computed from ergonomics use the raw
\* value, never the clamped one: the delta on screen is raw minus the naked
\* ergonomics, and final_stats.ergonomics of the export record is the raw
\* value, both to one decimal; of the export only the Markdown line is
\* clamped.
C21_ErgonomicsClampedOnlyForDisplay ==
    shown.ergonomics # << >> =>
        /\ Rendered(shown.ergonomics[1].value, Clamped(RawErgonomics))
        /\ Rendered(shown.ergonomics[1].delta,
                    RawErgonomics - weapon_stats.naked_ergonomics)
        /\ exported.made =>
              /\ Rendered(exported.ergonomics[1], RawErgonomics)
              /\ Rendered(exported.md_ergonomics[1], Clamped(RawErgonomics))

C21_Witness ==
    /\ exported.made
    /\ RawErgonomics = 10125
    /\ shown.ergonomics = << [value |-> 1000, delta |-> 62] >>
    /\ exported.ergonomics = <<1012>>
    /\ exported.md_ergonomics = <<1000>>

====
